---------------------------- MODULE Spec2Model ----------------------------
(***************************************************************************)
(* The background service worker of the TikTok download extension          *)
(* (src/background.js): a TTL-bounded cache that is hydrated once from      *)
(* chrome.storage.local, written back on a debounce timer, and consulted    *)
(* by handleFetchTikTokData before every network call.                      *)
(*                                                                          *)
(* Execution model: one event-loop thread.  Every action below is one task  *)
(* (a message delivery, a storage callback, a timer firing, a settled       *)
(* fetch) or one promise continuation (microtask).  Pending continuations   *)
(* run before any further task, in the order in which they were queued.     *)
(* Date.now() is the variable now; a handler reads it once.                 *)
(***************************************************************************)
EXTENDS Integers, Sequences, FiniteSets, Bags, TLC

(***************************************************************************)
(* Bounds of the model.                                                     *)
(***************************************************************************)
MaxReq == 2
MaxTicks == 1

(***************************************************************************)
(* Program constants.                                                       *)
(***************************************************************************)
CACHE_TTL_MS == 1000 * 60 * 60
PERSIST_DELAY_MS == 2000

\* Date.now() when the worker starts: any instant later than one TTL after
\* the epoch (the real clock is some 10^12 ms past it).
StartTime == 3 * CACHE_TTL_MS

(***************************************************************************)
(* Strings.  A string is [b, n]: the text b percent-encoded n times.  The   *)
(* text of a string in BarePercent holds a '%' that starts no escape.       *)
(* The empty string, like an absent property, is falsy.                     *)
(***************************************************************************)
Str(b, n) == [b |-> b, n |-> n]
EmptyStr == Str("", 0)
BarePercent == {"k%"}
Truthy(s) == s.b # ""

\* A parsed JSON body that is null, false, 0 or "" is falsy.
NullData == "null"
Payloads == {"p1", "p2"}
TruthyData(d) == d # NullData

K1 == Str("k1", 0)
K2 == Str("k2", 0)

\* URLSearchParams percent-decodes a value once and never throws.
FormDecode(s) == IF s.n > 0 THEN Str(s.b, s.n - 1) ELSE s

\* decodeURIComponent: one more decoding; throws URIError on a bare '%'.
DecodeThrows(s) == s.n = 0 /\ s.b \in BarePercent
decodeURIComponent(s) == IF s.n > 0 THEN Str(s.b, s.n - 1) ELSE s

(***************************************************************************)
(* Requests.  apiUrl is [raw, valid, params]: the string itself, whether    *)
(* new URL(raw) succeeds, and the query as a sequence of <<name, value>>    *)
(* with the value as written (still encoded).                               *)
(***************************************************************************)
Param(name, value) == [name |-> name, value |-> value]
ApiUrl(raw, valid, params) == [raw |-> raw, valid |-> valid, params |-> params]
Request(apiUrl, cacheKey) == [apiUrl |-> apiUrl, cacheKey |-> cacheKey]

\* buildApiUrl of the popup: ?api_key=Demo&url=<encoded target>
UrlDemoK1 == ApiUrl(Str("api?api_key=Demo&url=k1", 0), TRUE,
                    <<Param("api_key", Str("Demo", 0)), Param("url", Str("k1", 1))>>)
UrlK2 == ApiUrl(Str("api?url=k2", 0), TRUE, <<Param("url", Str("k2", 1))>>)
UrlEmpty == ApiUrl(EmptyStr, FALSE, <<>>)

Requests ==
    { Request(UrlDemoK1, K1),        \* the popup's form: explicit cacheKey
      Request(UrlK2, EmptyStr),      \* key derived from the url parameter
      Request(UrlEmpty, EmptyStr) }  \* no usable key at all

\* URLSearchParams.set writes a value percent-encoded once.
FormEncode(s) == Str(s.b, s.n + 1)

\* Target URLs a sender can ask for: plain text, text with a reserved
\* character, the same text already holding an escape ("k%203"), and text
\* with a '%' that starts no escape.
T1 == Str("k1", 0)
TSpace == Str("k 3", 0)
TEscaped == Str("k 3", 1)
TPercent == Str("k%", 0)
Targets == {T1, TSpace, TEscaped, TPercent}

\* The forms of apiUrl for a target: the url parameter alone, after or
\* before api_key, and the source parameter with or without an empty url.
\* Written(v) stands for the characters of v as they appear in the query
\* (one mark per encoding), so that the raw strings of different queries
\* differ.
UrlForms == {"url", "key,url", "url,key", "source", "url=,source", "key"}
Written(v) == v.b \o (IF v.n = 0 THEN "" ELSE IF v.n = 1 THEN "'" ELSE "''")
RECURSIVE Query(_)
Query(params) ==
    IF params = <<>> THEN ""
    ELSE Head(params).name \o "=" \o Written(Head(params).value)
         \o (IF Len(params) > 1 THEN "&" ELSE "") \o Query(Tail(params))
UrlWith(params) == ApiUrl(Str("api?" \o Query(params), 0), TRUE, params)
UrlOf(form, target) ==
    LET v == FormEncode(target)
        demo == Param("api_key", Str("Demo", 0))
    IN  UrlWith(CASE form = "url" -> <<Param("url", v)>>
                  [] form = "key,url" -> <<demo, Param("url", v)>>
                  [] form = "url,key" -> <<Param("url", v), demo>>
                  [] form = "source" -> <<Param("source", v)>>
                  [] form = "url=,source" ->
                        <<Param("url", EmptyStr), Param("source", v)>>
                  [] OTHER -> <<demo>>)

\* Requests as deriveCacheKey can be handed them: every form of apiUrl for
\* every target, and a string that new URL rejects, each with and without
\* an explicit cacheKey.
KeyRequests ==
    { Request(u, k) :
        u \in {UrlOf(form, target) : form \in UrlForms, target \in Targets}
                 \cup {UrlEmpty, ApiUrl(Str("not a url", 0), FALSE, <<>>)},
        k \in {EmptyStr, T1, TEscaped} }

\* URLSearchParams.get: the first value of that name, decoded; null if none.
RECURSIVE searchParamsGet(_, _)
searchParamsGet(params, name) ==
    IF params = <<>> THEN EmptyStr
    ELSE IF Head(params).name = name THEN FormDecode(Head(params).value)
    ELSE searchParamsGet(Tail(params), name)

deriveCacheKey(request) ==
    IF Truthy(request.cacheKey) THEN request.cacheKey
    ELSE IF ~request.apiUrl.valid THEN request.apiUrl.raw
    ELSE LET u == searchParamsGet(request.apiUrl.params, "url")
             targetUrl == IF Truthy(u) THEN u
                          ELSE searchParamsGet(request.apiUrl.params, "source")
         IN  IF ~Truthy(targetUrl) THEN request.apiUrl.raw
             ELSE IF DecodeThrows(targetUrl) THEN request.apiUrl.raw
             ELSE decodeURIComponent(targetUrl)

(***************************************************************************)
(* The Map cache, in insertion order, as a sequence of entries.             *)
(***************************************************************************)
Entry(key, data, timestamp) == [key |-> key, data |-> data, timestamp |-> timestamp]

MapHas(m, key) == \E i \in 1..Len(m) : m[i].key = key
MapGet(m, key) == m[CHOOSE i \in 1..Len(m) : m[i].key = key]
MapDelete(m, key) == LET Keep(e) == e.key # key IN SelectSeq(m, Keep)
\* Mutant: always adds an entry, also for a key the map already has.
MapSet_Appends(m, key, data, timestamp) == Append(m, Entry(key, data, timestamp))

MapSet(m, key, data, timestamp) ==
    IF MapHas(m, key)
    THEN [i \in 1..Len(m) |->
             IF m[i].key = key THEN Entry(key, data, timestamp) ELSE m[i]]
    ELSE Append(m, Entry(key, data, timestamp))

\* Mutant: the records are written without their timestamps.
Serialize_NoTimestamp(m) == [i \in 1..Len(m) |-> Entry(m[i].key, m[i].data, 0)]

\* Array.from(cache.entries()).map(...): one record per entry, in map order.
Serialize(m) == [i \in 1..Len(m) |-> Entry(m[i].key, m[i].data, m[i].timestamp)]

(***************************************************************************)
(* The cache module's mutable state, as the record the functions below      *)
(* transform: the Map, persistTimeoutId (0 is null) and the browser's       *)
(* table of armed timeouts.  setTimeout returns a positive id that no       *)
(* armed timeout has; the code only ever tests an id for being set.         *)
(***************************************************************************)
Mem(c, p, t) == [cache |-> c, persistTimeoutId |-> p, timers |-> t]

FreshId(armed) ==
    CHOOSE i \in 1..(Cardinality(armed) + 1) : \A x \in armed : x.id # i

setTimeout(S, delay, t) ==
    LET id == FreshId(S.timers)
    IN  [S EXCEPT !.persistTimeoutId = id,
                  !.timers = @ \cup {[id |-> id, due |-> t + delay]}]

\* Mutant: arms a timeout whether or not one is pending.
schedulePersist_NoGuard(S, t) == setTimeout(S, PERSIST_DELAY_MS, t)

\* Mutant: a debounce that restarts the delay on every call.
schedulePersist_Restart(S, t) ==
    setTimeout([S EXCEPT !.timers = {}], PERSIST_DELAY_MS, t)

schedulePersist(S, t) ==
    IF S.persistTimeoutId # 0 THEN S ELSE setTimeout(S, PERSIST_DELAY_MS, t)

Expired(e, t) == t - e.timestamp > CACHE_TTL_MS

\* Mutant: prunes an entry already at age = TTL.
pruneExpiredEntries_Inclusive(S, t) ==
    LET Keep(e) == t - e.timestamp < CACHE_TTL_MS
        kept == SelectSeq(S.cache, Keep)
        removed == Len(S.cache) - Len(kept)
    IN  IF removed # 0 THEN schedulePersist([S EXCEPT !.cache = kept], t) ELSE S

\* Mutant: the comparison the wrong way round.
pruneExpiredEntries_Inverted(S, t) ==
    LET Keep(e) == t - e.timestamp > CACHE_TTL_MS
        kept == SelectSeq(S.cache, Keep)
        removed == Len(S.cache) - Len(kept)
    IN  IF removed # 0 THEN schedulePersist([S EXCEPT !.cache = kept], t) ELSE S

\* Mutant: removes the expired entries and schedules nothing.
pruneExpiredEntries_NoSchedule(S, t) ==
    LET Keep(e) == ~Expired(e, t)
    IN  [S EXCEPT !.cache = SelectSeq(S.cache, Keep)]

pruneExpiredEntries(S, t) ==
    LET Keep(e) == ~Expired(e, t)
        kept == SelectSeq(S.cache, Keep)
        removed == Len(S.cache) - Len(kept)
    IN  IF removed # 0 THEN schedulePersist([S EXCEPT !.cache = kept], t) ELSE S

\* cacheLookup: [found, data, age, S], S the state it leaves.
Absent(S) == [found |-> FALSE, data |-> NullData, age |-> 0, S |-> S]
\* Mutant: treats age = TTL as expired.
cacheLookup_OffByOne(S, key, t) ==
    IF ~Truthy(key) THEN Absent(S)
    ELSE IF ~MapHas(S.cache, key) THEN Absent(S)
    ELSE LET entry == MapGet(S.cache, key)
             age == t - entry.timestamp
         IN  IF age >= CACHE_TTL_MS
             THEN Absent(schedulePersist([S EXCEPT !.cache = MapDelete(@, key)], t))
             ELSE [found |-> TRUE, data |-> entry.data, age |-> age, S |-> S]

\* Mutant: deletes the expired entry and schedules no persist.
cacheLookup_NoSchedule(S, key, t) ==
    IF ~Truthy(key) THEN Absent(S)
    ELSE IF ~MapHas(S.cache, key) THEN Absent(S)
    ELSE LET entry == MapGet(S.cache, key)
             age == t - entry.timestamp
         IN  IF age > CACHE_TTL_MS
             THEN Absent([S EXCEPT !.cache = MapDelete(@, key)])
             ELSE [found |-> TRUE, data |-> entry.data, age |-> age, S |-> S]

cacheLookup(S, key, t) ==
    IF ~Truthy(key) THEN Absent(S)
    ELSE IF ~MapHas(S.cache, key) THEN Absent(S)
    ELSE LET entry == MapGet(S.cache, key)
             age == t - entry.timestamp
         IN  IF age > CACHE_TTL_MS
             THEN Absent(schedulePersist([S EXCEPT !.cache = MapDelete(@, key)], t))
             ELSE [found |-> TRUE, data |-> entry.data, age |-> age, S |-> S]

\* Mutant: keeps the entry a key already has.
upsertCache_InsertOnly(S, key, data, t) ==
    IF ~Truthy(key) \/ ~TruthyData(data) THEN S
    ELSE IF MapHas(S.cache, key) THEN schedulePersist(S, t)
    ELSE schedulePersist([S EXCEPT !.cache = MapSet(@, key, data, t)], t)

\* Mutant: stores the entry and schedules no persist.
upsertCache_NoSchedule(S, key, data, t) ==
    IF ~Truthy(key) \/ ~TruthyData(data) THEN S
    ELSE [S EXCEPT !.cache = MapSet(@, key, data, t)]

upsertCache(S, key, data, t) ==
    IF ~Truthy(key) \/ ~TruthyData(data) THEN S
    ELSE schedulePersist([S EXCEPT !.cache = MapSet(@, key, data, t)], t)

\* Mutant: the admit filter without the test of entry.data.
Admitted_AnyData(entry, t) ==
    /\ Truthy(entry.key)
    /\ t - entry.timestamp <= CACHE_TTL_MS

\* The forEach of the hydration callback: stored records admitted in order.
Admitted(entry, t) ==
    /\ Truthy(entry.key)
    /\ t - entry.timestamp <= CACHE_TTL_MS
    /\ TruthyData(entry.data)

\* Mutant: an admitted record is stamped with the time of the hydration.
RECURSIVE Hydrate_Restamps(_, _, _)
Hydrate_Restamps(m, storedEntries, t) ==
    IF storedEntries = <<>> THEN m
    ELSE LET entry == Head(storedEntries)
             m2 == IF Admitted(entry, t)
                   THEN MapSet(m, entry.key, entry.data, t)
                   ELSE m
         IN  Hydrate_Restamps(m2, Tail(storedEntries), t)

RECURSIVE Hydrate(_, _, _)
Hydrate(m, storedEntries, t) ==
    IF storedEntries = <<>> THEN m
    ELSE LET entry == Head(storedEntries)
             m2 == IF Admitted(entry, t)
                   THEN MapSet(m, entry.key, entry.data, entry.timestamp)
                   ELSE m
         IN  Hydrate(m2, Tail(storedEntries), t)

(***************************************************************************)
(* Messages of thrown errors and the replies of the message listener.       *)
(* `HTTP error: ${status}` is the text with the status embedded.            *)
(***************************************************************************)
Msg(text, status) == [text |-> text, status |-> status]
NoMsg == Msg("", 0)
HttpErrorMessage(status) == Msg("HTTP error: ", status)
OrDefault(msg, default) == IF msg.text # "" THEN msg ELSE Msg(default, 0)

NoReply == [kind |-> "none", data |-> NullData, cacheHit |-> FALSE, cacheAge |-> 0,
            error |-> NoMsg]
Result(data, cacheHit, cacheAge) ==
    [kind |-> "result", data |-> data, cacheHit |-> cacheHit, cacheAge |-> cacheAge,
     error |-> NoMsg]
\* the .catch of the listener: { error: error.message || 'Unknown error' }
ErrorReply(message) ==
    [kind |-> "error", data |-> NullData, cacheHit |-> FALSE, cacheAge |-> 0,
     error |-> OrDefault(message, "Unknown error")]

\* content.videoDetected messages of the content script: the page URL and
\* its normalised form, which a sender may leave out.
Detected(url, normalizedUrl) == [url |-> url, normalizedUrl |-> normalizedUrl]
PageUrl == Str("page?lang=en", 0)
NormalizedPageUrl == Str("page", 0)
Detections == {Detected(PageUrl, NormalizedPageUrl), Detected(PageUrl, EmptyStr)}

\* Mutant: acknowledges with the page URL as sent.
AckUrl_Raw(message) == message.url

\* request.normalizedUrl || request.url
AckUrl(message) ==
    IF Truthy(message.normalizedUrl) THEN message.normalizedUrl ELSE message.url

\* { ack: true, url }; to (history) is the message it answers.
Ack(message) ==
    [kind |-> "ack", data |-> NullData, cacheHit |-> FALSE, cacheAge |-> 0,
     error |-> NoMsg, ack |-> TRUE, url |-> AckUrl(message), to |-> message]

\* What the network can answer.
Statuses == {200, 404, 500}
\* Mutant: only the lower end of the 2xx range is tested.
ResponseOk_NoUpperEnd(status) == status >= 200

ResponseOk(status) == status >= 200 /\ status <= 299
RejectMessages == {Msg("Failed to fetch", 0), NoMsg}

(***************************************************************************)
(* The popup (popup.js).  Its state object, with the fields the primary     *)
(* action depends on; meta is "video" when state.meta holds a videoUrl.     *)
(* A payload the popup can use is "p1" (status 'success', a result with a   *)
(* video.playAddr); any other payload has nothing to download.              *)
(***************************************************************************)
TabUrl == Str("tab", 0)
TikTokUrls == {PageUrl, NormalizedPageUrl}
PopupUrls == TikTokUrls \cup {TabUrl, EmptyStr}

\* TIKTOK_PATTERNS.some(pattern => pattern.test(url.trim()))
isValidTikTokUrl(url) == Truthy(url) /\ url \in TikTokUrls

\* Drops is_copy_url, is_from_webapp_v1, lang and the hash; a string that
\* is no URL comes back as it is.
normalizeTikTokUrl(url) ==
    IF ~Truthy(url) THEN EmptyStr
    ELSE IF url = PageUrl THEN NormalizedPageUrl
    ELSE url

Status(message, type) == [message |-> message, type |-> type]

InitialState ==
    [phase |-> "idle", contentType |-> "null", manualMode |-> FALSE,
     manualUrl |-> EmptyStr, status |-> Status(NoMsg, ""),
     loading |-> [primary |-> FALSE, music |-> FALSE],
     meta |-> "null", cacheHit |-> FALSE, activeUrl |-> EmptyStr]

setStatus(s, message, type) == [s EXCEPT !.status = Status(message, type)]
clearStatus(s) == [s EXCEPT !.status = Status(NoMsg, "")]

TargetUrl(s) == IF s.manualMode THEN s.manualUrl ELSE s.activeUrl

isPrimaryDisabled(s) ==
    IF s.loading.primary THEN TRUE
    ELSE IF s.phase = "ready" THEN FALSE
    ELSE ~isValidTikTokUrl(TargetUrl(s))

handleResponseError(s, message) ==
    [setStatus(s, message, "error") EXCEPT
        !.phase = "idle", !.meta = "null", !.cacheHit = FALSE]

handleApiResponse(s, payload, cacheHit) ==
    IF payload = NullData
    THEN handleResponseError(s, Msg("Invalid API response format.", 0))
    ELSE IF payload = "p1"
    THEN setStatus([s EXCEPT !.phase = "ready", !.contentType = "video",
                             !.meta = "video", !.cacheHit = cacheHit],
                   Msg(IF cacheHit THEN "Ready to download video (cached)."
                                   ELSE "Ready to download video.", 0),
                   "success")
    ELSE handleResponseError(s, Msg("No downloadable video or images found.", 0))

\* Mutant: a failed primary action only shows the message.
handleDownloadError_StatusOnly(s, type, message) ==
    setStatus(s, message, "error")

handleDownloadError(s, type, message) ==
    IF type = "music"
    THEN [setStatus(s, message, "error") EXCEPT !.loading.music = FALSE]
    ELSE [setStatus(s, message, "error") EXCEPT
             !.loading.primary = FALSE, !.phase = "idle"]

finalizePrimaryAction(s) == [s EXCEPT !.loading.primary = FALSE, !.phase = "ready"]

\* chrome.runtime.lastError as a callback finds it: unset, or set with a
\* message (which the browser may leave undefined).
LastError(isSet, message) == [isSet |-> isSet, message |-> message]
NoLastError == LastError(FALSE, NoMsg)
LastErrors ==
    {NoLastError,
     LastError(TRUE, Msg("The message port closed before a response was received.", 0)),
     LastError(TRUE, NoMsg)}

\* What the callback of chrome.runtime.sendMessage can be handed.
Responses ==
    {NoReply}
    \cup {Result(data, hit, 0) : data \in Payloads \cup {NullData}, hit \in BOOLEAN}
    \cup {ErrorReply(m) : m \in RejectMessages \cup {HttpErrorMessage(404)}}

\* The promise of fetchTikTokData as its sendMessage callback settles it.
Rejected(message) == [settled |-> TRUE, rejected |-> TRUE, message |-> message,
                      response |-> NoReply]
Resolved(response) == [settled |-> TRUE, rejected |-> FALSE, message |-> NoMsg,
                       response |-> response]
NotSettled == [settled |-> FALSE, rejected |-> FALSE, message |-> NoMsg,
               response |-> NoReply]

fetchTikTokData(lastError, response) ==
    IF lastError.isSet THEN Rejected(lastError.message)
    ELSE IF response.kind = "none"
    THEN Rejected(Msg("No response from background service.", 0))
    ELSE IF response.error.text # "" THEN Rejected(response.error)
    ELSE Resolved(response)

\* A browser call of the popup that has not been called back.
Callback(kind, url) == [kind |-> kind, url |-> url]
TabsQuery == Callback("tabs.query", EmptyStr)

(***************************************************************************)
(* The logger (logger.js).  A level as a caller writes it is a string: a    *)
(* known level, a known level in other case, a word that is no level, or    *)
(* "" for a level left out.  Each script holds at most one logger, under    *)
(* its scope.                                                               *)
(***************************************************************************)
KNOWN_LEVELS == {"debug", "info", "warn", "error"}
LEVEL_ORDER(level) ==
    CASE level = "debug" -> 0
      [] level = "info" -> 1
      [] level = "warn" -> 2
      [] level = "error" -> 3
LevelsWritten == KNOWN_LEVELS \cup {"", "WARN", "verbose"}
Scopes == {"background", "popup"}

\* String(level).toLowerCase()
ToLowerCase(level) == IF level = "WARN" THEN "warn" ELSE level

\* resolveLevel, with the global level it reads.
resolveLevel(level, global) ==
    IF level = "" THEN global
    ELSE IF ToLowerCase(level) \in KNOWN_LEVELS THEN ToLowerCase(level)
    ELSE global

shouldLog(level, global) ==
    LEVEL_ORDER(resolveLevel(level, global)) >= LEVEL_ORDER(global)

\* createScopedLogger(scope, { level, denyList }): the closure's localLevel and
\* denied set; level (history) is options.level as it was written.
Logger(scope, level, localLevel, denied) ==
    [scope |-> scope, level |-> level, localLevel |-> localLevel, denied |-> denied]
createScopedLogger(scope, level, denyList, global) ==
    Logger(scope, level, resolveLevel(level, global), denyList)
NoLogger == Logger("", "", "debug", {})

\* The outcome of a log call: the level it was called with, the level of the
\* record, and whether the console got the record.
Logged(scope, level, targetLevel, emitted) ==
    [scope |-> scope, level |-> level, targetLevel |-> targetLevel,
     emitted |-> emitted]
NothingLogged == Logged("", "", "debug", FALSE)

\* log(level, message) of the logger l.
log(l, level, global) ==
    LET targetLevel == resolveLevel(level, global)
    IN  IF ~shouldLog(targetLevel, global)
           \/ LEVEL_ORDER(targetLevel) < LEVEL_ORDER(l.localLevel)
        THEN Logged(l.scope, level, targetLevel, FALSE)
        ELSE IF l.scope \in l.denied
        THEN Logged(l.scope, level, targetLevel, FALSE)
        ELSE Logged(l.scope, level, targetLevel, TRUE)

(***************************************************************************)
(* State.  A fetchTikTokData message being handled is a record of where     *)
(* its handleFetchTikTokData call stands and what it has done so far; the   *)
(* calls suspended at the same await are told apart by nothing else.        *)
(***************************************************************************)
VARIABLES
    now,               \* Date.now()
    ticks,             \* how often the clock has advanced (bounded)
    storage,           \* chrome.storage.local[CACHE_STORAGE_KEY]
    cache,             \* the Map
    persistTimeoutId,  \* 0 is null
    timers,            \* armed timeouts, [id, due]
    cacheLoadPromise,  \* "null", "pending", "resolved"
    storageGet,        \* the hydration read: "none", "pending", "done", "failed", "threw"
    storageReads,      \* chrome.storage.local.get calls issued
    pendingWrites,     \* chrome.storage.local.set calls not yet called back
    received,          \* fetchTikTokData messages delivered to the listener
    waiters,           \* calls awaiting cacheLoadPromise, in order
    calls,             \* calls awaiting fetch() or response.json(), a bag
    replied,           \* sendResponse calls made
    sent,              \* the sendResponse call of the step just taken, if any
    window,            \* history: the upserts of the current debounce window
    state,             \* the popup's state object
    callbacks,         \* browser calls of the popup not yet called back, a bag
    settled,           \* the fetchTikTokData promise settled by the step just taken
    globalLevel,       \* the logger module's globalLevel
    loggers,           \* the logger each script holds, by scope
    logged             \* the log call of the step just taken, if any

workerVars == <<now, ticks, storage, cache, persistTimeoutId, timers,
                cacheLoadPromise, storageGet, storageReads, pendingWrites,
                received, waiters, calls, replied, sent, window>>
popupVars == <<state, callbacks, settled>>
loggerVars == <<globalLevel, loggers, logged>>
vars == <<workerVars, popupVars, loggerVars>>

S0 == Mem(cache, persistTimeoutId, timers)

\* The entry of key in the map m, NoEntry if it has none.
NoEntry == Entry(EmptyStr, NullData, 0)
EntryOf(m, key) == IF MapHas(m, key) THEN MapGet(m, key) ELSE NoEntry

\* before (history): the map's entry for the request's key on receipt.
Call(request, before) ==
    [pc |-> "awaitLoad", request |-> request, key |-> EmptyStr, status |-> 0,
     netCalls |-> 0, upserts |-> 0, timing |-> <<>>, before |-> before]

NothingSent == [reply |-> NoReply, call |-> Call(Request(UrlEmpty, EmptyStr), NoEntry)]

\* window (history): open from an upsert that arms the persist timeout until
\* that timeout fires; entries are the upserts made while it is open, the
\* last one of each key.
NoWindow == [open |-> FALSE, fired |-> FALSE, since |-> 0, entries |-> <<>>]

\* The value stored under CACHE_STORAGE_KEY: an array of records, or
\* something that is not an array.
StoredArray(entries) == [isArray |-> TRUE, entries |-> entries]
NotAnArray == [isArray |-> FALSE, entries |-> <<>>]
\* Array.isArray(result[CACHE_STORAGE_KEY]) ? result[CACHE_STORAGE_KEY] : []
ArrayOrEmpty(value) == IF value.isArray THEN value.entries ELSE <<>>

\* A stored record that lacks a property has the falsy value in its place
\* (entry.timestamp || 0); a null record lacks all three.
NullRecord == Entry(EmptyStr, NullData, 0)

\* What storage can hold when the worker starts: nothing (the default []),
\* a value that is not an array, a snapshot with malformed, stale and
\* repeated records among valid ones, and a snapshot written when the
\* system clock was one TTL ahead of where it is now.
MixedStore ==
    StoredArray(<< Entry(EmptyStr, "p1", StartTime - 1),
                   Entry(K1, "p1", StartTime - CACHE_TTL_MS),
                   Entry(K1, NullData, StartTime - 1),
                   Entry(K2, "p1", StartTime - 2),
                   Entry(K2, "p2", StartTime - 1),
                   Entry(K2, "p2", 0),
                   Entry(K2, "p1", StartTime - CACHE_TTL_MS - 1),
                   NullRecord >>)
AheadStore == StoredArray(<<Entry(K2, "p1", StartTime + CACHE_TTL_MS)>>)
InitStores == {StoredArray(<<>>), NotAnArray, MixedStore, AheadStore}

Init ==
    /\ now = StartTime
    /\ ticks = 0
    /\ storage \in InitStores
    /\ cache = <<>>
    /\ persistTimeoutId = 0
    /\ timers = {}
    /\ cacheLoadPromise = "null"
    /\ storageGet = "none"
    /\ storageReads = 0
    /\ pendingWrites = <<>>
    /\ received = 0
    /\ waiters = <<>>
    /\ calls = EmptyBag
    /\ replied = 0
    /\ sent = NothingSent
    /\ window = NoWindow
    /\ state = InitialState
    /\ callbacks = EmptyBag
    /\ settled = NotSettled
    /\ globalLevel = "debug"
    /\ loggers = [scope \in Scopes |-> NoLogger]
    /\ logged = NothingLogged

(***************************************************************************)
(* Helpers of the actions.                                                  *)
(***************************************************************************)
\* Mutant: handleFetchTikTokData goes on without awaiting the hydration.
MicrotaskPending_NoAwait == waiters # <<>>

\* A continuation is queued and runnable: it runs before any further task.
MicrotaskPending == waiters # <<>> /\ cacheLoadPromise = "resolved"

\* A later Date.now() of the same handler: the clock may have moved on.
Later(t) == IF ticks < MaxTicks THEN {t, t + 1} ELSE {t}

Store(S) ==
    /\ cache' = S.cache
    /\ persistTimeoutId' = S.persistTimeoutId
    /\ timers' = S.timers

Clock(t) == now' = t /\ ticks' = ticks + (IF t = now THEN 0 ELSE 1)

NoResponse == sent' = NothingSent /\ replied' = replied

\* sendResponse(reply) through the listener's then/catch, for the call q.
sendResponse(q, reply) ==
    /\ sent' = [reply |-> reply, call |-> [q EXCEPT !.pc = "done"]]
    /\ replied' = replied + 1

\* Mutant: only a successful fetch is measured.
TimerEnd_OnSuccessOnly(q, success) ==
    IF success THEN [q EXCEPT !.timing = Append(@, "completed")] ELSE q

\* timer.end(success, ...)
TimerEnd(q, success) ==
    [q EXCEPT !.timing = Append(@, IF success THEN "completed" ELSE "failed")]

Suspend(q) == calls' = calls (+) SetToBag({q})
Settle(q) == calls' = calls (-) SetToBag({q})
Awaiting(pc) == {q \in BagToSet(calls) : q.pc = pc}

(***************************************************************************)
(* Time passes.  An armed timeout fires when it is due: the clock does not  *)
(* pass a due time by a whole step with the timeout still armed.            *)
(***************************************************************************)
Steps == {CACHE_TTL_MS}

Tick ==
    /\ ticks < MaxTicks
    /\ \E t \in {now + d : d \in Steps} \cup {x.due : x \in timers} :
          /\ t > now
          /\ \A x \in timers : t <= x.due
          /\ now' = t
    /\ ticks' = ticks + 1
    /\ UNCHANGED popupVars
    /\ UNCHANGED loggerVars
    /\ UNCHANGED <<storage, cache, persistTimeoutId, timers, cacheLoadPromise,
                   storageGet, storageReads, pendingWrites, received, waiters,
                   calls, window>>
    /\ NoResponse

(***************************************************************************)
(* onMessage, action fetchTikTokData: handleFetchTikTokData runs up to its  *)
(* await of ensureCacheLoaded(), which issues the storage read if no        *)
(* promise exists yet.                                                      *)
(***************************************************************************)
\* Mutant: no check for an existing promise.
ensureCacheLoaded_Always ==
    /\ cacheLoadPromise' = "pending"
    /\ storageGet' = "pending"
    /\ storageReads' = storageReads + 1

ensureCacheLoaded ==
    IF cacheLoadPromise # "null"
    THEN UNCHANGED <<cacheLoadPromise, storageGet, storageReads>>
    ELSE /\ cacheLoadPromise' = "pending"
         /\ storageGet' = "pending"
         /\ storageReads' = storageReads + 1

Receive(request) ==
    /\ ~MicrotaskPending
    /\ received < MaxReq
    /\ received' = received + 1
    /\ ensureCacheLoaded
    /\ waiters' = Append(waiters,
                         Call(request, EntryOf(cache, deriveCacheKey(request))))
    /\ UNCHANGED popupVars
    /\ UNCHANGED loggerVars
    /\ UNCHANGED <<now, ticks, storage, cache, persistTimeoutId, timers,
                   pendingWrites, calls, window>>
    /\ NoResponse

(***************************************************************************)
(* onMessage, action content.videoDetected: answered synchronously.         *)
(***************************************************************************)
VideoDetected(message) ==
    /\ ~MicrotaskPending
    /\ sent' = [reply |-> Ack(message), call |-> NothingSent.call]
    /\ UNCHANGED popupVars
    /\ UNCHANGED loggerVars
    /\ UNCHANGED <<now, ticks, storage, cache, persistTimeoutId, timers,
                   cacheLoadPromise, storageGet, storageReads, pendingWrites,
                   received, waiters, calls, replied, window>>

(***************************************************************************)
(* The callback of chrome.storage.local.get.  On success it admits the      *)
(* stored records, prunes and resolves the promise.  When the read failed   *)
(* the browser sets chrome.runtime.lastError and passes either no result    *)
(* (result[CACHE_STORAGE_KEY] then throws before resolve()) or the          *)
(* defaults it was given.                                                   *)
(***************************************************************************)
HydrateFrom(storedEntries, t2) ==
    LET S1 == [S0 EXCEPT !.cache = Hydrate(cache, storedEntries, now)]
        S2 == IF Len(storedEntries) # 0 THEN pruneExpiredEntries(S1, t2) ELSE S1
    IN  /\ Store(S2)
        /\ Clock(t2)
        /\ cacheLoadPromise' = "resolved"

StorageGetOk ==
    /\ ~MicrotaskPending
    /\ storageGet = "pending"
    /\ \E t2 \in Later(now) : HydrateFrom(ArrayOrEmpty(storage), t2)
    /\ storageGet' = "done"
    /\ UNCHANGED popupVars
    /\ UNCHANGED loggerVars
    /\ UNCHANGED <<storage, storageReads, pendingWrites, received, waiters, calls,
                   window>>
    /\ NoResponse

StorageGetFailsWithDefaults ==
    /\ ~MicrotaskPending
    /\ storageGet = "pending"
    /\ HydrateFrom(<<>>, now)
    /\ storageGet' = "failed"
    /\ UNCHANGED popupVars
    /\ UNCHANGED loggerVars
    /\ UNCHANGED <<storage, storageReads, pendingWrites, received, waiters, calls,
                   window>>
    /\ NoResponse

StorageGetFailsWithoutResult ==
    /\ ~MicrotaskPending
    /\ storageGet = "pending"
    /\ storageGet' = "threw"
    /\ UNCHANGED popupVars
    /\ UNCHANGED loggerVars
    /\ UNCHANGED <<now, ticks, storage, cache, persistTimeoutId, timers,
                   cacheLoadPromise, storageReads, pendingWrites, received,
                   waiters, calls, window>>
    /\ NoResponse

(***************************************************************************)
(* handleFetchTikTokData after the await: prune, derive the key, look up;   *)
(* on a hit reply, on a miss start the timer and issue the network call.    *)
(***************************************************************************)
Resume ==
    /\ MicrotaskPending
    /\ waiters' = Tail(waiters)
    /\ \E t2 \in Later(now) :
          LET S1 == pruneExpiredEntries(S0, now)
              cacheKey == deriveCacheKey(Head(waiters).request)
              cached == cacheLookup(S1, cacheKey, t2)
              q == [Head(waiters) EXCEPT !.key = cacheKey]
          IN  /\ Store(cached.S)
              /\ Clock(t2)
              /\ IF cached.found
                 THEN /\ sendResponse(q, Result(cached.data, TRUE, cached.age))
                      /\ UNCHANGED calls
                 ELSE /\ Suspend([q EXCEPT !.pc = "awaitFetch", !.netCalls = @ + 1])
                      /\ NoResponse
    /\ UNCHANGED popupVars
    /\ UNCHANGED loggerVars
    /\ UNCHANGED <<storage, cacheLoadPromise, storageGet, storageReads,
                   pendingWrites, received, window>>

(***************************************************************************)
(* The network call settles: rejected, or a response whose status is not    *)
(* ok, or an ok response, whose body is then read by response.json().       *)
(***************************************************************************)
FetchRejects(q, message) ==
    /\ ~MicrotaskPending
    /\ q \in Awaiting("awaitFetch")
    /\ Settle(q)
    /\ sendResponse(TimerEnd(q, FALSE), ErrorReply(OrDefault(message, "Network error")))
    /\ UNCHANGED popupVars
    /\ UNCHANGED loggerVars
    /\ UNCHANGED <<now, ticks, storage, cache, persistTimeoutId, timers,
                   cacheLoadPromise, storageGet, storageReads, pendingWrites,
                   received, waiters, window>>

FetchResponds(q, status) ==
    /\ ~MicrotaskPending
    /\ q \in Awaiting("awaitFetch")
    /\ IF ~ResponseOk(status)
       THEN /\ Settle(q)
            /\ sendResponse(TimerEnd([q EXCEPT !.status = status], FALSE),
                            ErrorReply(HttpErrorMessage(status)))
       ELSE /\ calls' = (calls (-) SetToBag({q}))
                           (+) SetToBag({[q EXCEPT !.pc = "awaitJson", !.status = status]})
            /\ NoResponse
    /\ UNCHANGED popupVars
    /\ UNCHANGED loggerVars
    /\ UNCHANGED <<now, ticks, storage, cache, persistTimeoutId, timers,
                   cacheLoadPromise, storageGet, storageReads, pendingWrites,
                   received, waiters, window>>

JsonFails(q) ==
    /\ ~MicrotaskPending
    /\ q \in Awaiting("awaitJson")
    /\ Settle(q)
    /\ sendResponse(TimerEnd(q, FALSE), ErrorReply(Msg("Failed to parse API response", 0)))
    /\ UNCHANGED popupVars
    /\ UNCHANGED loggerVars
    /\ UNCHANGED <<now, ticks, storage, cache, persistTimeoutId, timers,
                   cacheLoadPromise, storageGet, storageReads, pendingWrites,
                   received, waiters, window>>

JsonParsed(q, payload) ==
    /\ ~MicrotaskPending
    /\ q \in Awaiting("awaitJson")
    /\ Settle(q)
    /\ Store(upsertCache(S0, q.key, payload, now))
    /\ window' = IF ~Truthy(q.key) \/ ~TruthyData(payload) THEN window
                 ELSE IF persistTimeoutId = 0
                      THEN [open |-> TRUE, fired |-> FALSE, since |-> now,
                            entries |-> <<Entry(q.key, payload, now)>>]
                 ELSE IF window.open
                      THEN [window EXCEPT !.entries = MapSet(@, q.key, payload, now)]
                 ELSE window
    /\ sendResponse([TimerEnd(q, TRUE) EXCEPT !.upserts = @ + 1],
                    Result(payload, FALSE, 0))
    /\ UNCHANGED popupVars
    /\ UNCHANGED loggerVars
    /\ UNCHANGED <<now, ticks, storage, cacheLoadPromise, storageGet,
                   storageReads, pendingWrites, received, waiters>>

(***************************************************************************)
(* The debounce timeout fires: persistCache clears persistTimeoutId and     *)
(* hands the serialized map to chrome.storage.local.set.                    *)
(***************************************************************************)
\* Mutant: persistTimeoutId is not cleared when the timeout fires.
persistCache_KeepsId(x) ==
    /\ persistTimeoutId' = persistTimeoutId
    /\ timers' = timers \ {x}
    /\ pendingWrites' = Append(pendingWrites, Serialize(cache))

persistCache(x) ==
    /\ persistTimeoutId' = 0
    /\ timers' = timers \ {x}
    /\ pendingWrites' = Append(pendingWrites, Serialize(cache))

\* Mutant: the timeout's task runs although a continuation is queued.
TimeoutFires_Preempts(x) ==
    /\ x \in timers
    /\ x.due <= now
    /\ persistCache(x)
    /\ window' = IF window.open
                 THEN [window EXCEPT !.open = FALSE, !.fired = TRUE]
                 ELSE window
    /\ UNCHANGED popupVars
    /\ UNCHANGED loggerVars
    /\ UNCHANGED <<now, ticks, storage, cache, cacheLoadPromise, storageGet,
                   storageReads, received, waiters, calls>>
    /\ NoResponse

TimeoutFires(x) ==
    /\ ~MicrotaskPending
    /\ x \in timers
    /\ x.due <= now
    /\ persistCache(x)
    /\ window' = IF window.open
                 THEN [window EXCEPT !.open = FALSE, !.fired = TRUE]
                 ELSE window
    /\ UNCHANGED popupVars
    /\ UNCHANGED loggerVars
    /\ UNCHANGED <<now, ticks, storage, cache, cacheLoadPromise, storageGet,
                   storageReads, received, waiters, calls>>
    /\ NoResponse

\* The callback of chrome.storage.local.set: the snapshot replaced the
\* stored value, or chrome.runtime.lastError is set and is logged.
StorageSetOk ==
    /\ ~MicrotaskPending
    /\ pendingWrites # <<>>
    /\ storage' = StoredArray(Head(pendingWrites))
    /\ pendingWrites' = Tail(pendingWrites)
    /\ UNCHANGED popupVars
    /\ UNCHANGED loggerVars
    /\ UNCHANGED <<now, ticks, cache, persistTimeoutId, timers, cacheLoadPromise,
                   storageGet, storageReads, received, waiters, calls, window>>
    /\ NoResponse

StorageSetFails ==
    /\ ~MicrotaskPending
    /\ pendingWrites # <<>>
    /\ pendingWrites' = Tail(pendingWrites)
    /\ UNCHANGED popupVars
    /\ UNCHANGED loggerVars
    /\ UNCHANGED <<now, ticks, storage, cache, persistTimeoutId, timers,
                   cacheLoadPromise, storageGet, storageReads, received, waiters,
                   calls, window>>
    /\ NoResponse

Next ==
    \/ Tick
    \/ \E request \in Requests : Receive(request)
    \/ \E message \in Detections : VideoDetected(message)
    \/ StorageGetOk
    \/ StorageGetFailsWithDefaults
    \/ StorageGetFailsWithoutResult
    \/ Resume
    \/ \E q \in BagToSet(calls), message \in RejectMessages : FetchRejects(q, message)
    \/ \E q \in BagToSet(calls), status \in Statuses : FetchResponds(q, status)
    \/ \E q \in BagToSet(calls) : JsonFails(q)
    \/ \E q \in BagToSet(calls), payload \in Payloads \cup {NullData} : JsonParsed(q, payload)
    \/ \E x \in timers : TimeoutFires(x)
    \/ StorageSetOk
    \/ StorageSetFails

Spec == Init /\ [][Next]_vars

(***************************************************************************)
(* The same worker with the scheduling the platform gives: a queued         *)
(* continuation runs, a storage call is called back, a network call         *)
(* settles, a due timeout fires.                                            *)
(***************************************************************************)
StorageGetCallback ==
    StorageGetOk \/ StorageGetFailsWithDefaults \/ StorageGetFailsWithoutResult
StorageSetCallback == StorageSetOk \/ StorageSetFails
NetworkSettles ==
    \E q \in BagToSet(calls) :
        \/ \E message \in RejectMessages : FetchRejects(q, message)
        \/ \E status \in Statuses : FetchResponds(q, status)
        \/ JsonFails(q)
        \/ \E payload \in Payloads \cup {NullData} : JsonParsed(q, payload)

LiveSpec ==
    /\ Spec
    /\ WF_vars(Resume)
    /\ WF_vars(StorageGetCallback)
    /\ WF_vars(StorageSetCallback)
    /\ WF_vars(NetworkSettles)
    /\ WF_vars(\E x \in timers : TimeoutFires(x))

\* ... and with time passing for as long as the model's clock runs.
\* The worker started on the snapshot MixedStore.
ClockInit == Init /\ storage = MixedStore
ClockSpec ==
    /\ ClockInit /\ [][Next]_vars
    /\ WF_vars(Resume)
    /\ WF_vars(StorageGetCallback)
    /\ WF_vars(StorageSetCallback)
    /\ WF_vars(NetworkSettles)
    /\ WF_vars(\E x \in timers : TimeoutFires(x))
    /\ WF_vars(Tick)

(***************************************************************************)
(* deriveCacheKey on its own: two requests drawn from KeyRequests, each     *)
(* handed to deriveCacheKey once; the call records hold the results.        *)
(***************************************************************************)
KeyInit ==
    /\ now = StartTime
    /\ ticks = 0
    /\ storage = StoredArray(<<>>)
    /\ cache = <<>>
    /\ persistTimeoutId = 0
    /\ timers = {}
    /\ cacheLoadPromise = "null"
    /\ storageGet = "none"
    /\ storageReads = 0
    /\ pendingWrites = <<>>
    /\ received = 2
    /\ waiters \in {<<Call(r1, NoEntry), Call(r2, NoEntry)>> : r1, r2 \in KeyRequests}
    /\ calls = EmptyBag
    /\ replied = 0
    /\ sent = NothingSent
    /\ window = NoWindow
    /\ state = InitialState
    /\ callbacks = EmptyBag
    /\ settled = NotSettled
    /\ globalLevel = "debug"
    /\ loggers = [scope \in Scopes |-> NoLogger]
    /\ logged = NothingLogged

DeriveKey(i) ==
    /\ waiters[i].pc = "awaitLoad"
    /\ waiters' = [waiters EXCEPT
                      ![i].key = deriveCacheKey(waiters[i].request),
                      ![i].pc = "derived"]
    /\ UNCHANGED popupVars
    /\ UNCHANGED loggerVars
    /\ UNCHANGED <<now, ticks, storage, cache, persistTimeoutId, timers,
                   cacheLoadPromise, storageGet, storageReads, pendingWrites,
                   received, calls, replied, sent, window>>

KeyNext == \E i \in 1..Len(waiters) : DeriveKey(i)

KeySpec == KeyInit /\ [][KeyNext]_vars

(***************************************************************************)
(* The popup on its own: opened on some tab, with the user typing, pressing *)
(* Enter and clicking, the content script reporting a video, and the        *)
(* browser calling back.  Every action is one task with the promise         *)
(* continuations it queues; the worker is left as it starts.                *)
(***************************************************************************)
PopupInit ==
    /\ now = StartTime
    /\ ticks = 0
    /\ storage = StoredArray(<<>>)
    /\ cache = <<>>
    /\ persistTimeoutId = 0
    /\ timers = {}
    /\ cacheLoadPromise = "null"
    /\ storageGet = "none"
    /\ storageReads = 0
    /\ pendingWrites = <<>>
    /\ received = 0
    /\ waiters = <<>>
    /\ calls = EmptyBag
    /\ replied = 0
    /\ sent = NothingSent
    /\ window = NoWindow
    /\ state = InitialState
    /\ callbacks = SetToBag({TabsQuery})
    /\ settled = NotSettled
    /\ globalLevel = "debug"
    /\ loggers = [scope \in Scopes |-> NoLogger]
    /\ logged = NothingLogged

\* Calls in flight; the model lets the popup have MaxReq of them at a time.
InFlight == BagCardinality(callbacks)
Called(c) == callbacks' = callbacks (-) SetToBag({c})

\* prepareDownloadFromUrl up to its await: the request is on its way.
prepareDownloadFromUrl(s, url, pending) ==
    LET normalized == normalizeTikTokUrl(url)
    IN  /\ state' = setStatus([s EXCEPT !.loading.primary = TRUE,
                                        !.phase = "fetching",
                                        !.activeUrl = normalized],
                              Msg("Retrieving data...", 0), "loading")
        /\ callbacks' = pending (+) SetToBag({Callback("sendMessage",
                                                        normalizeTikTokUrl(normalized))})

\* checkCurrentTabStatus after chrome.tabs.query has answered.
TabsQueried(activeUrl) ==
    /\ TabsQuery \in BagToSet(callbacks)
    /\ IF ~isValidTikTokUrl(activeUrl)
       THEN /\ state' = setStatus([state EXCEPT !.manualMode = TRUE,
                                                !.activeUrl = EmptyStr],
                                  Msg("Not on a TikTok video. Paste a TikTok link below to begin.", 0),
                                  "info")
            /\ Called(TabsQuery)
       ELSE prepareDownloadFromUrl([state EXCEPT !.manualMode = FALSE,
                                                 !.activeUrl = activeUrl],
                                   activeUrl, callbacks (-) SetToBag({TabsQuery}))
    /\ settled' = NotSettled
    /\ UNCHANGED workerVars
    /\ UNCHANGED loggerVars

\* The input event of the manual URL field.
ManualInput(value) ==
    /\ state' = [state EXCEPT !.manualUrl = value]
    /\ settled' = NotSettled
    /\ UNCHANGED <<callbacks, workerVars>>
    /\ UNCHANGED loggerVars

\* Enter in the manual URL field, or the manual fetch button.
handleManualFetch ==
    /\ InFlight < MaxReq
    /\ IF ~isValidTikTokUrl(state.manualUrl)
       THEN /\ state' = setStatus(state, Msg("Enter a valid TikTok link.", 0), "warning")
            /\ UNCHANGED callbacks
       ELSE prepareDownloadFromUrl(state, state.manualUrl, callbacks)
    /\ settled' = NotSettled
    /\ UNCHANGED workerVars
    /\ UNCHANGED loggerVars

\* A click on the primary button, which a disabled button does not get.
DownloadClick ==
    /\ InFlight < MaxReq
    /\ ~isPrimaryDisabled(state)
    /\ LET s == clearStatus(state)
       IN  IF s.phase = "ready"
           THEN IF s.contentType # "video"
                THEN state' = s /\ UNCHANGED callbacks
                ELSE IF s.meta # "video"
                THEN /\ state' = handleDownloadError(s, "video",
                                     Msg("No video URL found for download.", 0))
                     /\ UNCHANGED callbacks
                ELSE /\ state' = [s EXCEPT !.loading.primary = TRUE,
                                           !.phase = "downloading"]
                     /\ callbacks' = callbacks (+) SetToBag({Callback("download", s.activeUrl)})
           ELSE IF ~isValidTikTokUrl(TargetUrl(s))
           THEN /\ state' = handleDownloadError(s, "video",
                                Msg("No valid TikTok URL detected.", 0))
                /\ UNCHANGED callbacks
           ELSE prepareDownloadFromUrl(s, TargetUrl(s), callbacks)
    /\ settled' = NotSettled
    /\ UNCHANGED workerVars
    /\ UNCHANGED loggerVars

\* The popup's own listener for content.videoDetected.
ContentDetected(message) ==
    /\ Truthy(message.url)
    /\ state' = [state EXCEPT !.manualMode = FALSE,
                              !.activeUrl = normalizeTikTokUrl(message.url)]
    /\ settled' = NotSettled
    /\ UNCHANGED <<callbacks, workerVars>>
    /\ UNCHANGED loggerVars

\* The callback of chrome.runtime.sendMessage settles the promise, and
\* prepareDownloadFromUrl runs on through its try, catch and finally.
PrepareSettles(c, lastError, response) ==
    /\ c \in BagToSet(callbacks)
    /\ c.kind = "sendMessage"
    /\ Called(c)
    /\ settled' = fetchTikTokData(lastError, response)
    /\ LET outcome == fetchTikTokData(lastError, response)
           s1 == IF outcome.rejected
                 THEN handleDownloadError(state, "video", outcome.message)
                 ELSE handleApiResponse(state, outcome.response.data,
                                        outcome.response.cacheHit)
       IN  state' = [s1 EXCEPT !.loading.primary = FALSE]
    /\ UNCHANGED workerVars
    /\ UNCHANGED loggerVars

\* The callback of chrome.downloads.download for the video.
DownloadCalledBack(c, lastError) ==
    /\ c \in BagToSet(callbacks)
    /\ c.kind = "download"
    /\ Called(c)
    /\ state' = IF lastError.isSet
                THEN handleDownloadError(state, "video",
                         Msg("Download error: " \o lastError.message.text, 0))
                ELSE finalizePrimaryAction(
                         setStatus(state, Msg("Video download started!", 0), "success"))
    /\ settled' = NotSettled
    /\ UNCHANGED workerVars
    /\ UNCHANGED loggerVars

PopupNext ==
    \/ \E activeUrl \in PopupUrls : TabsQueried(activeUrl)
    \/ \E value \in PopupUrls : ManualInput(value)
    \/ handleManualFetch
    \/ DownloadClick
    \/ \E message \in Detections : ContentDetected(message)
    \/ \E c \in BagToSet(callbacks), lastError \in LastErrors, response \in Responses :
          PrepareSettles(c, lastError, response)
    \/ \E c \in BagToSet(callbacks), lastError \in LastErrors : DownloadCalledBack(c, lastError)

PopupSpec == PopupInit /\ [][PopupNext]_vars

(***************************************************************************)
(* The logger on its own: scripts construct their loggers, set the global   *)
(* level and log, in any order.                                             *)
(***************************************************************************)
LoggerInit ==
    /\ now = StartTime
    /\ ticks = 0
    /\ storage = StoredArray(<<>>)
    /\ cache = <<>>
    /\ persistTimeoutId = 0
    /\ timers = {}
    /\ cacheLoadPromise = "null"
    /\ storageGet = "none"
    /\ storageReads = 0
    /\ pendingWrites = <<>>
    /\ received = 0
    /\ waiters = <<>>
    /\ calls = EmptyBag
    /\ replied = 0
    /\ sent = NothingSent
    /\ window = NoWindow
    /\ state = InitialState
    /\ callbacks = EmptyBag
    /\ settled = NotSettled
    /\ globalLevel = "debug"
    /\ loggers = [scope \in Scopes |-> NoLogger]
    /\ logged = NothingLogged

\* createScopedLogger.setLevel(level)
setLevel(level) ==
    /\ globalLevel' = resolveLevel(level, globalLevel)
    /\ logged' = NothingLogged
    /\ UNCHANGED <<loggers, workerVars, popupVars>>

\* const logger = createScopedLogger(scope, { level, denyList })
Construct(scope, level, denyList) ==
    /\ loggers' = [loggers EXCEPT
                      ![scope] = createScopedLogger(scope, level, denyList, globalLevel)]
    /\ logged' = NothingLogged
    /\ UNCHANGED <<globalLevel, workerVars, popupVars>>

\* logger.log(level, message), and logger.debug, info, warn, error.
Log(scope, level) ==
    /\ loggers[scope] # NoLogger
    /\ logged' = log(loggers[scope], level, globalLevel)
    /\ UNCHANGED <<globalLevel, loggers, workerVars, popupVars>>

LoggerNext ==
    \/ \E level \in LevelsWritten : setLevel(level)
    \/ \E scope \in Scopes, level \in LevelsWritten :
          \E denyList \in {{}, {scope}} : Construct(scope, level, denyList)
    \/ \E scope \in Scopes, level \in LevelsWritten : Log(scope, level)

LoggerSpec == LoggerInit /\ [][LoggerNext]_vars

(***************************************************************************)
(* Properties.                                                              *)
(***************************************************************************)
KeysChecked == {EmptyStr, K1, K2}
DataChecked == Payloads \cup {NullData}

\* A step that resumes the call at the head of waiters.
ResumeStep == MicrotaskPending /\ waiters' = Tail(waiters)

\* C1: in every reachable state and for every key, cacheLookup returns an
\* entry only with its age now - timestamp, and never with an age above
\* CACHE_TTL_MS; an entry whose age is exactly CACHE_TTL_MS is returned with
\* that age; so no cacheHit reply carries a cacheAge above CACHE_TTL_MS.
C1_NoExpiredEntryReturned ==
    /\ \A key \in KeysChecked, t \in {now, now + 1} :
          LET got == cacheLookup(S0, key, t)
              e == EntryOf(cache, key)
          IN  /\ got.found =>
                    /\ MapHas(cache, key)
                    /\ got.data = e.data
                    /\ got.age = t - e.timestamp
                    /\ got.age <= CACHE_TTL_MS
              /\ (MapHas(cache, key) /\ t - e.timestamp = CACHE_TTL_MS) =>
                    got.found /\ got.age = CACHE_TTL_MS
              /\ (MapHas(cache, key) /\ t - e.timestamp > CACHE_TTL_MS) => ~got.found
    /\ sent.reply.cacheHit => sent.reply.cacheAge <= CACHE_TTL_MS

\* C1 witness: a cacheHit reply for an entry whose age is exactly the TTL.
C1_HitAtExactlyTTL ==
    sent.reply.cacheHit /\ sent.reply.cacheAge = CACHE_TTL_MS

\* C2: however many fetchTikTokData calls reach ensureCacheLoaded, one
\* storage read is issued, and no call gets past its await before that
\* read's callback has filled the map and resolved the promise.
C2_SingleHydrationRead ==
    /\ storageReads <= 1
    /\ received > 0 => storageReads = 1
    /\ cacheLoadPromise = "resolved" <=> storageGet \in {"done", "failed"}
    /\ storageGet \in {"none", "pending", "threw"} =>
          /\ Len(waiters) = received
          /\ calls = EmptyBag
          /\ replied = 0

\* C2 witness: two calls that arrived before the read's callback are about
\* to resume after it, with one read issued.
C2_TwoCallersOneRead ==
    Len(waiters) >= 2 /\ cacheLoadPromise = "resolved" /\ storageReads = 1

FetchedReply == sent.reply.kind = "result" /\ ~sent.reply.cacheHit

\* C4 as claimed: every successful fetch has made one upsert that stored the
\* parsed payload under the derived key, so that a lookup of the key at the
\* reply finds the payload.
C4_EverySuccessfulFetchStored ==
    FetchedReply =>
        /\ sent.call.upserts = 1
        /\ cacheLookup(S0, sent.call.key, now).found
        /\ cacheLookup(S0, sent.call.key, now).data = sent.reply.data

\* C4 amended: every successful fetch calls upsertCache once before the
\* reply; when the payload and the derived key are truthy the map then holds
\* the payload under the key with timestamp now, and a lookup finds it at
\* age 0; a falsy payload or key is replied and not stored (the map never
\* holds a falsy key or falsy data).  An entry of the map afterwards changes
\* only by a later upsert and leaves the map only once it is older than TTL.
C4_TruthyFetchStored ==
    /\ [](FetchedReply =>
            /\ sent.call.upserts = 1
            /\ (Truthy(sent.call.key) /\ TruthyData(sent.reply.data)) =>
                  /\ EntryOf(cache, sent.call.key)
                        = Entry(sent.call.key, sent.reply.data, now)
                  /\ cacheLookup(S0, sent.call.key, now).found
                  /\ cacheLookup(S0, sent.call.key, now).data = sent.reply.data
                  /\ cacheLookup(S0, sent.call.key, now).age = 0
            /\ ~Truthy(sent.call.key) => ~MapHas(cache, sent.call.key))
    /\ [](\A i \in 1..Len(cache) : Truthy(cache[i].key) /\ TruthyData(cache[i].data))
    /\ [][\A i \in 1..Len(cache) :
            LET e == cache[i]
            IN  \/ EntryOf(cache', e.key) = e
                \/ /\ MapHas(cache', e.key)
                   /\ EntryOf(cache', e.key).timestamp = now'
                   /\ sent'.call.key = e.key /\ sent'.call.upserts = 1
                \/ ~MapHas(cache', e.key) /\ now' - e.timestamp > CACHE_TTL_MS
       ]_vars

\* C4 witness: the reply of a successful fetch whose payload is in the map.
C4_FetchedAndStored ==
    /\ FetchedReply
    /\ sent.call.key = K2
    /\ sent.reply.data = "p1"
    /\ EntryOf(cache, K2) = Entry(K2, "p1", now)

\* A reply to a request whose network call was answered with a status
\* outside 200..299.
NonOkReply(m) == m.call.status # 0 /\ ~(m.call.status >= 200 /\ m.call.status <= 299)

\* C5 as claimed: a non-2xx answer is replied {error: "HTTP error: <status>"}
\* and the map's entry for the request's key is then what it was when the
\* request arrived.
C5_EntryAsBeforeRequest ==
    NonOkReply(sent) =>
        /\ sent.reply = ErrorReply(HttpErrorMessage(sent.call.status))
        /\ EntryOf(cache, sent.call.key) = sent.call.before

\* C5 amended: a non-2xx answer is replied {error: "HTTP error: <status>"},
\* and handling it leaves the map and the persist timer as they were.  Over
\* the whole request the entry for its key is as on arrival, except that an
\* entry already older than TTL has been evicted by the request's own prune
\* or lookup, or that another request has upserted the key since.
C5_NonOkLeavesCache ==
    [][ /\ NonOkReply(sent') =>
             LET before == sent'.call.before
                 after == EntryOf(cache', sent'.call.key)
             IN  /\ sent'.reply = ErrorReply(HttpErrorMessage(sent'.call.status))
                 /\ sent'.call.netCalls = 1
                 /\ cache' = cache
                 /\ timers' = timers
                 /\ persistTimeoutId' = persistTimeoutId
                 /\ pendingWrites' = pendingWrites
                 /\ \/ after = before
                    \/ /\ before # NoEntry
                       /\ after = NoEntry
                       /\ now' - before.timestamp > CACHE_TTL_MS
                    \/ after # NoEntry /\ after.timestamp > before.timestamp
        /\ sent'.reply.error.text = "HTTP error: " => NonOkReply(sent')
      ]_vars

\* C5 witness: the reply to a 404 of a request whose key had an expired
\* entry when it arrived; the entry is gone.
C5_ErrorAfterEviction ==
    /\ sent.reply = ErrorReply(HttpErrorMessage(404))
    /\ sent.call.before # NoEntry
    /\ EntryOf(cache, sent.call.key) = NoEntry

\* The shape of a reply: the full result or an error with a message.
WellFormedReply(reply) ==
    \/ reply.kind = "result" /\ reply.error = NoMsg
    \/ /\ reply.kind = "error"
       /\ reply.error.text # ""
       /\ reply.data = NullData /\ ~reply.cacheHit /\ reply.cacheAge = 0

\* C6 as claimed: every fetchTikTokData message is eventually answered, once,
\* by a full result or by an error with a non-empty message, given that the
\* storage read and the network call are called back.
C6_EveryMessageAnswered ==
    /\ [](sent.reply.kind \in {"result", "error"} => WellFormedReply(sent.reply))
    /\ [](replied <= received)
    /\ \A n \in 1..MaxReq : (received >= n) ~> (replied >= n)

\* C7 as claimed: a failed storage read or write is absorbed: callers are
\* not left waiting on it and no reply reports it.
C7_StorageFailureAbsorbed ==
    /\ storageGet \in {"failed", "threw"} => cacheLoadPromise = "resolved"
    /\ sent.reply.kind = "error" =>
          sent.reply.error.text \in
             {"HTTP error: ", "Failed to fetch", "Network error",
              "Failed to parse API response"}

\* The last write handed to chrome.storage.local.set.
LastWrite(writes) == writes[Len(writes)]

\* C8: the upserts of one debounce window (opened by an upsert made with no
\* persist pending, closed when the timeout it armed fires 2000 ms later)
\* arm one timeout and issue no write while the window is open; the firing,
\* no earlier than 2000 ms after the first upsert, issues exactly one write, whose snapshot holds the final entry of every
\* key upserted in the window.
C8_WindowCoalescesToOneWrite ==
    /\ [](window.open =>
            /\ \E x \in timers :
                  /\ timers = {x}
                  /\ x.id = persistTimeoutId
                  /\ x.due = window.since + PERSIST_DELAY_MS
                  /\ \A i \in 1..Len(window.entries) :
                        /\ window.entries[i].timestamp >= window.since
                        /\ window.entries[i].timestamp <= now
            /\ \A i \in 1..Len(window.entries) :
                  EntryOf(cache, window.entries[i].key) = window.entries[i])
    /\ [][ /\ (~window.open /\ window'.open) =>
                /\ persistTimeoutId = 0
                /\ timers = {}
                /\ pendingWrites' = pendingWrites
           /\ (window.open /\ window'.open) =>
                /\ timers' = timers
                /\ persistTimeoutId' = persistTimeoutId
                /\ Len(pendingWrites') <= Len(pendingWrites)
           /\ (window.open /\ ~window'.open) =>
                /\ now >= window.since + PERSIST_DELAY_MS
                /\ timers' = {}
                /\ persistTimeoutId' = 0
                /\ Len(pendingWrites') = Len(pendingWrites) + 1
                /\ \A i \in 1..Len(pendingWrites) : pendingWrites'[i] = pendingWrites[i]
                /\ \A i \in 1..Len(window.entries) :
                      EntryOf(LastWrite(pendingWrites'), window.entries[i].key)
                         = window.entries[i]
         ]_vars

\* C8 witness: a window of two upserts has just been written by one write.
C8_TwoUpsertsOneWrite ==
    /\ window.fired
    /\ Len(window.entries) >= 2
    /\ pendingWrites # <<>>
    /\ \A i \in 1..Len(window.entries) :
          EntryOf(LastWrite(pendingWrites), window.entries[i].key) = window.entries[i]
    /\ timers = {}

\* C9: at most one persist timeout is armed and persistTimeoutId names it;
\* schedulePersist arms one only when none is pending and changes nothing
\* otherwise; persistTimeoutId is cleared exactly by the firing; a change of
\* the hydrated map leaves a timeout armed.
C9_AtMostOnePersistTimer ==
    /\ [](/\ Cardinality(timers) <= 1
          /\ persistTimeoutId # 0 <=> timers # {}
          /\ \A x \in timers : x.id = persistTimeoutId
          /\ persistTimeoutId # 0 => schedulePersist(S0, now) = S0
          /\ persistTimeoutId = 0 =>
                LET S == schedulePersist(S0, now)
                IN  /\ S.persistTimeoutId # 0
                    /\ S.timers = {[id |-> S.persistTimeoutId,
                                    due |-> now + PERSIST_DELAY_MS]}
                    /\ S.cache = cache)
    /\ [][ /\ (timers' # timers /\ timers' # {}) =>
                /\ timers = {}
                /\ persistTimeoutId = 0
                /\ \E x \in timers' :
                      /\ timers' = {x}
                      /\ x.id = persistTimeoutId'
                      /\ x.due >= now + PERSIST_DELAY_MS
                      /\ x.due <= now' + PERSIST_DELAY_MS
           /\ (persistTimeoutId # 0 /\ persistTimeoutId' # persistTimeoutId) =>
                /\ persistTimeoutId' = 0
                /\ \A x \in timers : x.due <= now
                /\ Len(pendingWrites') = Len(pendingWrites) + 1
           /\ Len(pendingWrites') > Len(pendingWrites) =>
                persistTimeoutId # 0 /\ persistTimeoutId' = 0
           /\ (cacheLoadPromise = "resolved" /\ cache' # cache) =>
                persistTimeoutId' # 0
         ]_vars

\* C9 witness: a timeout is armed again while the write of the previous
\* firing is still in flight.
C9_RearmedAfterFiring ==
    /\ timers # {}
    /\ persistTimeoutId # 0
    /\ pendingWrites # <<>>

\* The entries of a map other than the one for a key, in order.
Others(m, key) == SelectSeq(m, LAMBDA e : e.key # key)

\* C10: upsertCache with a falsy key or falsy data changes nothing; otherwise
\* the map then holds one entry for the key, with the data and timestamp now,
\* the other entries are as before, a persist is pending (the pending one if
\* there was one), and an immediate lookup returns the data with age 0.  The
\* map and timer after a fetched reply are those of that upsert.
C10_UpsertContract ==
    /\ \A key \in KeysChecked, data \in DataChecked :
          LET S == upsertCache(S0, key, data, now)
              got == cacheLookup(S, key, now)
          IN  IF ~Truthy(key) \/ ~TruthyData(data)
              THEN S = S0
              ELSE /\ Cardinality({i \in 1..Len(S.cache) : S.cache[i].key = key}) = 1
                   /\ EntryOf(S.cache, key) = Entry(key, data, now)
                   /\ Others(S.cache, key) = Others(cache, key)
                   /\ S.persistTimeoutId # 0
                   /\ \E x \in S.timers : x.id = S.persistTimeoutId
                   /\ persistTimeoutId # 0 =>
                         /\ S.persistTimeoutId = persistTimeoutId
                         /\ S.timers = timers
                   /\ persistTimeoutId = 0 =>
                         S.timers = {[id |-> S.persistTimeoutId,
                                      due |-> now + PERSIST_DELAY_MS]}
                   /\ got.found /\ got.data = data /\ got.age = 0
                   /\ got.S = S
    /\ (FetchedReply /\ Truthy(sent.call.key) /\ TruthyData(sent.reply.data)) =>
          /\ Cardinality({i \in 1..Len(cache) : cache[i].key = sent.call.key}) = 1
          /\ EntryOf(cache, sent.call.key).timestamp = now
          /\ persistTimeoutId # 0

\* C10 witness: the reply of a fetch whose upsert replaced an entry of the
\* same key that an earlier persist had already written to storage.
C10_UpsertReplacedEntry ==
    /\ FetchedReply
    /\ sent.call.key = K1
    /\ MapHas(storage.entries, K1)
    /\ EntryOf(storage.entries, K1).timestamp >= StartTime
    /\ EntryOf(storage.entries, K1).timestamp < now
    /\ EntryOf(cache, K1) = Entry(K1, sent.reply.data, now)
    /\ EntryOf(storage.entries, K1).data # sent.reply.data

\* C11: cacheLookup returns absent for a falsy key, an unmapped key and an
\* expired entry; for a falsy key, an unmapped key and a valid entry it
\* leaves the map and the persist timer as they are; for an expired entry it
\* deletes that entry only and leaves a persist pending (the pending one if
\* there was one, else a new one 2000 ms ahead).
C11_LookupFrame ==
    \A key \in KeysChecked, t \in {now, now + 1} :
        LET got == cacheLookup(S0, key, t)
            e == EntryOf(cache, key)
        IN  /\ (~Truthy(key) \/ ~MapHas(cache, key)) => ~got.found /\ got.S = S0
            /\ (MapHas(cache, key) /\ t - e.timestamp <= CACHE_TTL_MS) =>
                  got.found /\ got.S = S0
            /\ (MapHas(cache, key) /\ t - e.timestamp > CACHE_TTL_MS) =>
                  /\ ~got.found
                  /\ ~MapHas(got.S.cache, key)
                  /\ Others(got.S.cache, key) = Others(cache, key)
                  /\ Len(got.S.cache) = Len(cache) - 1
                  /\ got.S.persistTimeoutId # 0
                  /\ persistTimeoutId # 0 =>
                        /\ got.S.persistTimeoutId = persistTimeoutId
                        /\ got.S.timers = timers
                  /\ persistTimeoutId = 0 =>
                        got.S.timers = {[id |-> got.S.persistTimeoutId,
                                         due |-> t + PERSIST_DELAY_MS]}

\* C11 witness: a request has just missed on an entry that its own lookup
\* found expired and deleted, with another entry still in the map.
C11_LazyExpiryHappened ==
    /\ \E q \in BagToSet(calls) :
          /\ q.pc = "awaitFetch"
          /\ q.before # NoEntry
          /\ now - q.before.timestamp = CACHE_TTL_MS + 1
          /\ ~MapHas(cache, q.key)
    /\ cache # <<>>
    /\ persistTimeoutId # 0

\* A step in which the hydration read is called back with the stored value.
HydrationStep == storageGet = "pending" /\ storageGet' = "done"

\* The last record of key among the stored records that has a key, has
\* data, and is no older than TTL at t; NoEntry if there is none.
LastWellFormed(records, key, t) ==
    LET idx == {i \in 1..Len(records) :
                   /\ records[i].key = key
                   /\ records[i].key # EmptyStr
                   /\ records[i].data # NullData
                   /\ t - records[i].timestamp <= CACHE_TTL_MS}
    IN  IF idx = {} THEN NoEntry
        ELSE records[CHOOSE i \in idx : \A j \in idx : j <= i]

\* C12 as claimed: after hydration the map holds, for every key, the stored
\* record of that key that has a key, data and age <= TTL on the clock the
\* hydration callback read (line 16), and nothing else.
C12_MapIsWellFormedRecords ==
    [][HydrationStep =>
          /\ \A key \in KeysChecked :
                EntryOf(cache', key) = LastWellFormed(ArrayOrEmpty(storage), key, now)
          /\ \A i \in 1..Len(cache') : cache'[i].key \in KeysChecked
      ]_vars

\* C12 amended: after hydration the map holds, for every key, the last
\* stored record of that key that has a key, data and age <= TTL on the
\* clock the callback read, provided its age is still <= TTL on the clock
\* the prune that ends hydration reads; nothing else is in the map, each key
\* at most once; a value that is not an array hydrates as no records.  The
\* step sends no reply and resolves the promise.
C12_HydrationAdmitsWellFormed ==
    [][HydrationStep =>
          /\ \A key \in KeysChecked :
                LET r == LastWellFormed(ArrayOrEmpty(storage), key, now)
                IN  EntryOf(cache', key) =
                       IF r # NoEntry /\ now' - r.timestamp <= CACHE_TTL_MS
                       THEN r ELSE NoEntry
          /\ \A i \in 1..Len(cache') :
                /\ cache'[i].key \in KeysChecked \ {EmptyStr}
                /\ \A j \in 1..Len(cache') : cache'[j].key = cache'[i].key => j = i
          /\ ~storage.isArray => cache' = <<>>
          /\ cacheLoadPromise' = "resolved"
          /\ sent' = NothingSent
          /\ replied' = replied
          /\ storage' = storage
      ]_vars

\* C12 witness: the map just hydrated from a snapshot with malformed, stale
\* and repeated records holds its two valid records.
C12_HydratedFromMixedStore ==
    /\ storageGet = "done"
    /\ storage = MixedStore
    /\ cache = <<Entry(K1, "p1", StartTime - CACHE_TTL_MS),
                 Entry(K2, "p2", StartTime - 1)>>
    /\ now = StartTime
    /\ waiters # <<>>

\* C13 as claimed: every age that cacheLookup returns and every cacheAge of
\* a reply is >= 0, entries admitted by hydration included.
C13_AgeNeverNegative ==
    /\ \A key \in KeysChecked, t \in {now, now + 1} :
          cacheLookup(S0, key, t).found => cacheLookup(S0, key, t).age >= 0
    /\ sent.reply.cacheAge >= 0

\* The value of the request's url parameter or, failing that, of its source
\* parameter, as URLSearchParams decodes it; EmptyStr if it has neither.
TargetParam(request) ==
    LET u == searchParamsGet(request.apiUrl.params, "url")
    IN  IF Truthy(u) THEN u ELSE searchParamsGet(request.apiUrl.params, "source")

\* The key the claim gives a request.
ClaimedKey(request) ==
    IF Truthy(request.cacheKey) THEN request.cacheKey
    ELSE IF request.apiUrl.valid /\ Truthy(TargetParam(request))
         THEN TargetParam(request)
    ELSE request.apiUrl.raw

\* C14 as claimed: deriveCacheKey returns the explicit cacheKey when there
\* is one; otherwise the decoded value of the url (failing that, source)
\* parameter whatever the other parameters and their order; otherwise the
\* raw apiUrl; so two requests with the same explicit key, or with no
\* explicit key and the same target, get the same key.
C14_KeyDerivation ==
    /\ \A i \in 1..Len(waiters) :
          waiters[i].pc = "derived" => waiters[i].key = ClaimedKey(waiters[i].request)
    /\ \A i, j \in 1..Len(waiters) :
          LET r1 == waiters[i].request
              r2 == waiters[j].request
          IN  /\ waiters[i].pc = "derived" /\ waiters[j].pc = "derived"
              /\ \/ Truthy(r1.cacheKey) /\ r1.cacheKey = r2.cacheKey
                 \/ /\ ~Truthy(r1.cacheKey) /\ ~Truthy(r2.cacheKey)
                    /\ r1.apiUrl.valid /\ r2.apiUrl.valid
                    /\ Truthy(TargetParam(r1))
                    /\ TargetParam(r1) = TargetParam(r2)
              => waiters[i].key = waiters[j].key

\* The number of entries the map m has for key.
Count(m, key) == Cardinality({i \in 1..Len(m) : m[i].key = key})

\* C15 as claimed: when a request's successful fetch ends after another
\* request for the same key has upserted in the meantime (both had missed),
\* the map then holds one entry for the key, with this request's payload
\* and timestamp.
C15_LastUpsertCarried ==
    [][(FetchedReply' /\ MapHas(cache, sent'.call.key)) =>
          /\ Count(cache', sent'.call.key) = 1
          /\ EntryOf(cache', sent'.call.key)
                = Entry(sent'.call.key, sent'.reply.data, now')
      ]_vars

\* C15 amended: a request that finds no valid entry for its key while
\* another request for the key is awaiting its network call or body does not
\* wait: it starts its own network call in the same step.  Each such request
\* replies cacheHit:false after exactly one network call.  After a successful
\* fetch with truthy payload and key the map holds exactly one entry for the
\* key, with the payload and timestamp of that (the latest) upsert, whatever
\* another request stored for the key before; after one with a falsy payload
\* the entry stored by the other request stays as it is.  No step changes or
\* removes another call that is in flight.
C15_ConcurrentMissesLastWins ==
    [][ /\ ResumeStep =>
             LET key == deriveCacheKey(Head(waiters).request)
                 e == EntryOf(cache, key)
             IN  (/\ \E q \in BagToSet(calls) : q.key = key
                  /\ ~(MapHas(cache, key) /\ now' - e.timestamp <= CACHE_TTL_MS)) =>
                     /\ sent' = NothingSent
                     /\ \E q \in BagToSet(calls') :
                           /\ q.key = key
                           /\ q.pc = "awaitFetch"
                           /\ q.netCalls = 1
                           /\ calls' = calls (+) SetToBag({q})
        /\ FetchedReply' =>
             LET key == sent'.call.key
             IN  /\ sent'.call.netCalls = 1
                 /\ BagCardinality(calls') = BagCardinality(calls) - 1
                 /\ (Truthy(key) /\ TruthyData(sent'.reply.data)) =>
                       /\ Count(cache', key) = 1
                       /\ EntryOf(cache', key) = Entry(key, sent'.reply.data, now')
                       /\ Others(cache', key) = Others(cache, key)
                 /\ ~TruthyData(sent'.reply.data) => cache' = cache
        /\ \A q \in BagToSet(calls) :
             CopiesIn(q, calls') >= CopiesIn(q, calls) - 1
        /\ BagCardinality(calls') >= BagCardinality(calls) - 1
      ]_vars

\* C15 witness: the second of two requests for K1 that both missed replies
\* after the first one's upsert, in the same debounce window, and its
\* payload has replaced the first one's.
C15_SecondUpsertReplacedFirst ==
    /\ FetchedReply
    /\ sent.call.key = K1
    /\ sent.call.before = NoEntry
    /\ sent.reply.data = "p2"
    /\ window.open
    /\ window.since < now
    /\ window.entries = <<Entry(K1, "p2", now)>>
    /\ cache = <<Entry(K1, "p2", now)>>

\* C16: in every state in which a message can be delivered, hydration or
\* fetches pending or not, a content.videoDetected message is answered in
\* the step that delivers it with {ack: true, url}, url being its
\* normalizedUrl if it has one and its url otherwise; that step changes
\* nothing of the cache, the hydration promise, the persist timer, storage
\* or the requests in progress.
C16_VideoDetectedAcked ==
    /\ [](~MicrotaskPending => \A m \in Detections : ENABLED VideoDetected(m))
    /\ [][sent'.reply.kind = "ack" =>
            /\ sent'.reply.ack
            /\ sent'.reply.url =
                  (IF sent'.reply.to.normalizedUrl # EmptyStr
                   THEN sent'.reply.to.normalizedUrl ELSE sent'.reply.to.url)
            /\ sent'.reply.error = NoMsg
            /\ UNCHANGED <<now, storage, cache, persistTimeoutId, timers,
                           cacheLoadPromise, storageGet, storageReads,
                           pendingWrites, received, waiters, calls, replied>>
       ]_vars

\* C16 witness: a message without normalizedUrl acknowledged with its url
\* while two fetches are pending and the persist timer is armed.
C16_AckWhileFetchesPending ==
    /\ sent.reply.kind = "ack"
    /\ sent.reply.to = Detected(PageUrl, EmptyStr)
    /\ sent.reply.url = PageUrl
    /\ BagCardinality(calls) = 2
    /\ timers # {}

\* C17: whenever the fetchTikTokData request of a prepareDownloadFromUrl call
\* fails (the channel reports lastError, the callback gets no response, or
\* the reply carries an error), the step that settles it leaves the popup
\* with status = the error's message text and type error, phase idle and
\* loading.primary false; the primary button is then disabled exactly when
\* the target URL is no valid TikTok URL, and with a valid one a click on it
\* starts a new fetch at once.
C17_FailureResetsPopup ==
    [](settled.rejected =>
          /\ state.status = Status(settled.message, "error")
          /\ state.phase = "idle"
          /\ ~state.loading.primary
          /\ (isPrimaryDisabled(state) <=> ~isValidTikTokUrl(TargetUrl(state)))
          /\ (isValidTikTokUrl(TargetUrl(state)) =>
                 ENABLED (DownloadClick /\ state'.phase = "fetching")))

\* An error reply has just failed a request and the target URL is valid.
C17_FailedWithValidTarget ==
    /\ settled.rejected
    /\ settled.message = HttpErrorMessage(404)
    /\ state.activeUrl = NormalizedPageUrl
    /\ ~state.manualMode

\* What a call of pruneExpiredEntries in the present state returns, by its
\* own clock read: nothing older than the TTL, every other entry as it was
\* and in place, and a persist scheduled if and only if an entry went.
Aged(m, t) == {i \in 1..Len(m) : t - m[i].timestamp > CACHE_TTL_MS}
PruneContract ==
    LET S1 == pruneExpiredEntries(S0, now)
        kept == {cache[i] : i \in (1..Len(cache)) \ Aged(cache, now)}
    IN  /\ Aged(S1.cache, now) = {}
        /\ {S1.cache[i] : i \in 1..Len(S1.cache)} = kept
        /\ Len(S1.cache) = Len(cache) - Cardinality(Aged(cache, now))
        /\ \A i, j \in 1..Len(S1.cache) :
              i < j => \E k, l \in 1..Len(cache) :
                          k < l /\ cache[k] = S1.cache[i] /\ cache[l] = S1.cache[j]
        /\ Aged(cache, now) # {} => S1.persistTimeoutId # 0
        /\ (Aged(cache, now) # {} /\ persistTimeoutId = 0) =>
              S1.timers = {[id |-> S1.persistTimeoutId, due |-> now + PERSIST_DELAY_MS]}
        /\ (Aged(cache, now) = {} \/ persistTimeoutId # 0) =>
              S1.timers = timers /\ S1.persistTimeoutId = persistTimeoutId

\* C18 as stated: the prune's contract, and at the lookup of every request
\* (which reads the clock again) the map holds no entry older than the TTL.
C18_NoExpiredEntryAtLookup ==
    /\ [](PruneContract)
    /\ [][ResumeStep =>
             Aged(pruneExpiredEntries(S0, now).cache, now') = {}]_vars

\* C18, amended: the prune's contract holds, and the map a request's lookup
\* consults holds no entry older than the TTL by the clock read of the prune
\* that preceded it; an entry that reaches that age between the prune's
\* clock read and the lookup's is still in the map, and if it is the one
\* looked up the lookup itself deletes it and misses.
C18_PrunedBeforeLookup ==
    /\ [](PruneContract)
    /\ [][ResumeStep =>
             LET S1 == pruneExpiredEntries(S0, now)
                 key == deriveCacheKey(Head(waiters).request)
             IN  /\ Aged(S1.cache, now) = {}
                 /\ Aged(cache', now) = {}
                 /\ \A i \in Aged(S1.cache, now') :
                       /\ now' - S1.cache[i].timestamp = CACHE_TTL_MS + (now' - now)
                       /\ S1.cache[i].key = key =>
                             ~MapHas(cache', key) /\ sent'.reply.kind = "none"]_vars

\* C18 witness: a request's prune has just removed the expired entry of its
\* key together with the expired entry of another key, and its lookup missed.
C18_PruneRemovedExpired ==
    /\ \E q \in BagToSet(calls) :
          /\ q.pc = "awaitFetch"
          /\ q.before # NoEntry
          /\ q.key = K1
          /\ now - q.before.timestamp = 2 * CACHE_TTL_MS
    /\ storage = MixedStore
    /\ cache = <<>>
    /\ persistTimeoutId # 0

\* A step in which the persist timeout fires, and one in which a
\* chrome.storage.local.set call is called back.
PersistFires == Len(pendingWrites') = Len(pendingWrites) + 1
WriteCalledBack == Len(pendingWrites') = Len(pendingWrites) - 1

\* C19: the write a firing persist issues carries exactly one record
\* {key, data, timestamp} per entry of the map as it is at that moment; when
\* a write is called back, durable storage afterwards is either exactly that
\* write's snapshot (success: whatever the previous snapshot held is gone) or
\* what it was before (failure), and in both cases the map, persistTimeoutId
\* and the armed timeouts are untouched, so a failed write arms no retry.
C19_PersistSnapshot ==
    /\ [][PersistFires =>
             LET snapshot == pendingWrites'[Len(pendingWrites')]
             IN  /\ Len(snapshot) = Len(cache)
                 /\ \A i \in 1..Len(cache) :
                       /\ DOMAIN snapshot[i] = {"key", "data", "timestamp"}
                       /\ snapshot[i].key = cache[i].key
                       /\ snapshot[i].data = cache[i].data
                       /\ snapshot[i].timestamp = cache[i].timestamp
                 /\ \A i, j \in 1..Len(snapshot) :
                       snapshot[i].key = snapshot[j].key => i = j
                 /\ SubSeq(pendingWrites', 1, Len(pendingWrites)) = pendingWrites
                 /\ storage' = storage /\ cache' = cache]_vars
    /\ [][WriteCalledBack =>
             /\ \/ storage' = [isArray |-> TRUE, entries |-> Head(pendingWrites)]
                \/ storage' = storage
             /\ pendingWrites' = Tail(pendingWrites)
             /\ cache' = cache
             /\ persistTimeoutId' = persistTimeoutId
             /\ timers' = timers]_vars

\* C19 witness: a write has succeeded and replaced a snapshot that held
\* more records (malformed and stale ones) with the records of the map.
C19_SnapshotReplacedStorage ==
    /\ storage.isArray
    /\ pendingWrites = <<>>
    /\ Len(storage.entries) >= 2
    /\ Len(storage.entries) < Len(MixedStore.entries)
    /\ Len(storage.entries) = Len(cache)
    /\ \A i \in 1..Len(cache) :
          /\ storage.entries[i].key = cache[i].key
          /\ storage.entries[i].timestamp = cache[i].timestamp
    /\ \E i \in 1..Len(cache) : cache[i].timestamp = StartTime

\* The map a hydration step has admitted before its prune runs.
AdmittedMap == Hydrate(cache, ArrayOrEmpty(storage), now)
\* A step that changes the map by upsert, lazy expiry or prune: any change
\* of the map outside hydration, and a hydration whose prune removes.
MapMutated ==
    \/ cache' # cache /\ ~HydrationStep
    \/ HydrationStep /\ Aged(AdmittedMap, now') # {}
\* The persist timeout cannot come due: the clock of the model has run out.
ClockStopped == ticks = MaxTicks /\ \A x \in timers : now < x.due

\* C20: a step in which upsert, a lookup that finds an expired entry, or a
\* prune that removes entries changes the map ends with the persist timeout
\* armed, due no later than one debounce interval after the step; an armed
\* timeout is given up only by firing, which issues a write carrying the map
\* as it then is (the mutation included, unless undone since); and with time
\* passing an armed timeout does fire.  So no such mutation is left without
\* a pending persist or an attempted write.
C20_MutationsGetPersisted ==
    /\ [][MapMutated =>
             /\ persistTimeoutId' # 0
             /\ \E x \in timers' :
                   /\ x.id = persistTimeoutId'
                   /\ x.due <= now' + PERSIST_DELAY_MS]_vars
    /\ [][persistTimeoutId # 0 =>
             \/ /\ persistTimeoutId' = persistTimeoutId
                /\ timers' = timers
             \/ /\ persistTimeoutId' = 0
                /\ timers' = {}
                /\ cache' = cache
                /\ Len(pendingWrites') = Len(pendingWrites) + 1
                /\ LET snapshot == pendingWrites'[Len(pendingWrites')]
                   IN  /\ Len(snapshot) = Len(cache)
                       /\ \A i \in 1..Len(cache) :
                             /\ snapshot[i].key = cache[i].key
                             /\ snapshot[i].data = cache[i].data
                             /\ snapshot[i].timestamp = cache[i].timestamp]_vars
    /\ (persistTimeoutId # 0 ~> (persistTimeoutId = 0 \/ ClockStopped))

\* C20 witness: an upsert replaced a hydrated entry, the timeout it armed
\* has fired one debounce interval later, and the write in flight carries
\* the new entry.
C20_MutationWritten ==
    /\ persistTimeoutId = 0
    /\ Len(pendingWrites) = 1
    /\ now = StartTime + PERSIST_DELAY_MS
    /\ storage = MixedStore
    /\ \E i \in 1..Len(pendingWrites[1]) :
          /\ pendingWrites[1][i].timestamp = StartTime
          /\ MapHas(cache, pendingWrites[1][i].key)
          /\ MapGet(cache, pendingWrites[1][i].key).timestamp = StartTime

\* C21: once the hydration wait of a request is over, its prune, key
\* derivation, lookup and, on a hit, its reply are one step: while a
\* continuation is queued no message is delivered, no storage callback runs,
\* no network call settles and no persist timeout fires; the step decides
\* hit or miss by looking the key up in the map as the step found it, pruned;
\* and a call that hits is finished in that same step, having never been
\* suspended on anything but the hydration.
C21_ContinuationIsAtomic ==
    /\ [](MicrotaskPending =>
             /\ ~ENABLED (\E request \in Requests : Receive(request))
             /\ ~ENABLED (\E message \in Detections : VideoDetected(message))
             /\ ~ENABLED StorageGetCallback
             /\ ~ENABLED StorageSetCallback
             /\ ~ENABLED NetworkSettles
             /\ ~ENABLED (\E x \in timers : TimeoutFires(x))
             /\ ENABLED Resume)
    /\ [][ResumeStep =>
             LET S1 == pruneExpiredEntries(S0, now)
                 key == deriveCacheKey(Head(waiters).request)
                 cached == cacheLookup(S1, key, now')
             IN  /\ cache' = cached.S.cache
                 /\ storage' = storage /\ pendingWrites' = pendingWrites
                 /\ received' = received
                 /\ cached.found =>
                       /\ sent'.reply = Result(cached.data, TRUE, cached.age)
                       /\ sent'.call.pc = "done"
                       /\ sent'.call.request = Head(waiters).request
                       /\ sent'.call.timing = <<>>
                       /\ calls' = calls
                 /\ ~cached.found =>
                       /\ sent'.reply.kind = "none"
                       /\ BagCardinality(calls') = BagCardinality(calls) + 1]_vars
    /\ [](\A q \in BagToSet(calls) : q.pc \in {"awaitFetch", "awaitJson"})
    /\ [](\A i \in 1..Len(waiters) : waiters[i].pc = "awaitLoad")

\* C21 witness: of two requests that waited for the same hydration the first
\* has just been answered from the cache and the second is still queued.
C21_HitWhileAnotherQueued ==
    /\ sent.reply.cacheHit
    /\ waiters # <<>>
    /\ MicrotaskPending
    /\ received = 2

\* The four ways in which a request that missed can end, read off its reply
\* and its call record.
Ok2xx(status) == status >= 200 /\ status <= 299
TransportFailure(m) ==
    /\ m.reply.kind = "error"
    /\ m.call.status = 0
    /\ m.reply.error \in {Msg("Failed to fetch", 0), Msg("Network error", 0)}
NonSuccessStatus(m) ==
    /\ m.reply.kind = "error"
    /\ m.call.status # 0 /\ ~Ok2xx(m.call.status)
    /\ m.reply.error = [text |-> "HTTP error: ", status |-> m.call.status]
ParseFailure(m) ==
    /\ m.reply.kind = "error"
    /\ Ok2xx(m.call.status)
    /\ m.reply.error = Msg("Failed to parse API response", 0)
FetchSuccess(m) ==
    /\ m.reply.kind = "result"
    /\ Ok2xx(m.call.status)
    /\ m.reply.cacheAge = 0
Outcomes(m) ==
    {o \in {"transport", "status", "parse", "success"} :
        \/ o = "transport" /\ TransportFailure(m)
        \/ o = "status" /\ NonSuccessStatus(m)
        \/ o = "parse" /\ ParseFailure(m)
        \/ o = "success" /\ FetchSuccess(m)}

\* C22: a request that missed has issued exactly one network call, while it
\* is in flight and when it is answered; its reply is exactly one of
\* transport failure, non-success status, parse failure and success; when it
\* is answered its timer has been ended exactly once, as failed on the three
\* failures and as completed on success, and not before the outcome is known.
C22_OneCallOneOutcomeOneTiming ==
    /\ [](\A q \in BagToSet(calls) : q.netCalls = 1 /\ q.timing = <<>>)
    /\ []((sent.reply.kind \in {"result", "error"} /\ ~sent.reply.cacheHit) =>
             /\ sent.call.netCalls = 1
             /\ Cardinality(Outcomes(sent)) = 1
             /\ Len(sent.call.timing) = 1
             /\ sent.call.timing[1] = "completed" <=> FetchSuccess(sent)
             /\ sent.call.timing[1] = "failed" <=> sent.reply.kind = "error")
    /\ [](sent.reply.cacheHit => sent.call.netCalls = 0 /\ sent.call.timing = <<>>)

\* C22 witness: a request that missed got a 2xx answer whose body did not
\* parse; it is answered with the parse error after one call and one failed
\* measurement.
C22_ParseFailureMeasured ==
    /\ ParseFailure(sent)
    /\ sent.call.netCalls = 1
    /\ sent.call.timing = <<"failed">>

\* The logger that made the log call of the step just taken.
Logging == loggers[logged.scope]
\* It was constructed with a local level: options.level names a level.
HasLocalLevel(l) == ToLowerCase(l.level) \in KNOWN_LEVELS

\* C23: a record of a known level logged by a logger that is not denied is
\* emitted exactly when its level is at or above the global level of the
\* moment and, if the logger was constructed with a local level, at or above
\* that level; a logger constructed without one is gated by the global level
\* alone; and nothing below the global level is ever emitted.
C23_GlobalAndLocalGate ==
    (logged.scope # "" /\ ToLowerCase(logged.level) \in KNOWN_LEVELS) =>
        LET level == ToLowerCase(logged.level)
            clearsGlobal == LEVEL_ORDER(level) >= LEVEL_ORDER(globalLevel)
            clearsLocal ==
                HasLocalLevel(Logging) =>
                    LEVEL_ORDER(level) >= LEVEL_ORDER(ToLowerCase(Logging.level))
        IN  /\ logged.emitted => clearsGlobal
            /\ logged.scope \notin Logging.denied =>
                  (logged.emitted <=> (clearsGlobal /\ clearsLocal))

\* The callback of the hydration read has not run to its end: the read is
\* not issued, or pending, or its callback threw before resolving.
NotHydrated == cacheLoadPromise # "resolved"

\* C24: until the callback of the hydration read has run the map is empty,
\* no persist timeout is armed and no write has been issued, and durable
\* storage is not written; so the hydration finds an empty map (it can
\* overwrite no upserted entry), and a persist fires, and storage changes,
\* only after the hydration.
C24_NothingBeforeHydration ==
    /\ [](NotHydrated =>
             /\ storageGet \in {"none", "pending", "threw"}
             /\ cache = <<>>
             /\ persistTimeoutId = 0
             /\ timers = {}
             /\ pendingWrites = <<>>
             /\ window = NoWindow
             /\ BagToSet(calls) = {})
    /\ [][(storageGet = "pending" /\ storageGet' # "pending") => cache = <<>>]_vars
    /\ [][(Len(pendingWrites') > Len(pendingWrites) \/ storage' # storage) =>
             cacheLoadPromise = "resolved"]_vars
    /\ [][cacheLoadPromise = "resolved" =>
             cacheLoadPromise' = "resolved" /\ storageGet' = storageGet]_vars

\* C24 witness: two requests and a detection ping have arrived while the
\* hydration read is still out; nothing has been done to map, timer or
\* storage.
C24_RequestsWaitForHydration ==
    /\ storageGet = "pending"
    /\ Len(waiters) = 2
    /\ sent.reply.kind = "ack"
    /\ storage = MixedStore
    /\ cache = <<>>

\* The map of a later process after its hydration from the stored value:
\* the callback reads the clock at t and its prune reads it at t2.
Rehydrated(value, t, t2) ==
    LET storedEntries == ArrayOrEmpty(value)
        S1 == Mem(Hydrate(<<>>, storedEntries, t), 0, {})
    IN  IF Len(storedEntries) # 0 THEN pruneExpiredEntries(S1, t2).cache
        ELSE S1.cache
\* When a later process may hydrate: at once, at and around the time the
\* newest entries reach the TTL, and a TTL later.
HydrationTimes ==
    {now', now' + 1, StartTime + CACHE_TTL_MS, now' + CACHE_TTL_MS - PERSIST_DELAY_MS,
     now' + CACHE_TTL_MS}
\* A step in which a write succeeds: storage takes the snapshot written.
WriteSucceeds ==
    WriteCalledBack /\ storage' = [isArray |-> TRUE, entries |-> Head(pendingWrites)]

\* C25 as stated, with the hydration time the clock read of the hydration
\* callback: every entry of a written snapshot of age <= TTL at that time is
\* restored with its key, data and original timestamp, and every older one
\* is not.
C25_RoundTripAtAdmission ==
    [][WriteSucceeds =>
          \A t \in HydrationTimes : \A t2 \in {t, t + 1} :
              LET snapshot == storage'.entries
                  m == Rehydrated(storage', t, t2)
              IN  \A i \in 1..Len(snapshot) :
                     IF t - snapshot[i].timestamp <= CACHE_TTL_MS
                     THEN /\ MapHas(m, snapshot[i].key)
                          /\ MapGet(m, snapshot[i].key) = snapshot[i]
                     ELSE ~MapHas(m, snapshot[i].key)]_vars

\* C25, amended: whenever a write has succeeded, a process that hydrates
\* from the stored snapshot later restores every entry of it whose age is
\* still <= TTL at the clock read of the hydration's prune (which follows
\* the admission of the records) under the same key with the same data and
\* the original timestamp, restores nothing else, and restores no entry
\* that is older than the TTL by then.
C25_PersistHydrateRoundTrip ==
    [][WriteSucceeds =>
          \A t \in HydrationTimes : \A t2 \in {t, t + 1} :
              LET snapshot == storage'.entries
                  m == Rehydrated(storage', t, t2)
                  Fresh == {i \in 1..Len(snapshot) :
                               t2 - snapshot[i].timestamp <= CACHE_TTL_MS}
              IN  /\ \A i \in Fresh :
                        /\ MapHas(m, snapshot[i].key)
                        /\ MapGet(m, snapshot[i].key).data = snapshot[i].data
                        /\ MapGet(m, snapshot[i].key).timestamp = snapshot[i].timestamp
                  /\ \A i \in (1..Len(snapshot)) \ Fresh : ~MapHas(m, snapshot[i].key)
                  /\ Len(m) = Cardinality(Fresh)]_vars

\* C25 witness: a snapshot of two entries with different timestamps has been
\* written; hydrated one TTL later it gives back the younger one only.
C25_SnapshotWithOldAndNew ==
    /\ storage.isArray
    /\ pendingWrites = <<>>
    /\ storage \notin InitStores
    /\ \E i, j \in 1..Len(storage.entries) :
          /\ storage.entries[i].timestamp = StartTime
          /\ storage.entries[j].timestamp > StartTime
    /\ Len(Rehydrated(storage, now + CACHE_TTL_MS, now + CACHE_TTL_MS)) = 1

\* C26: in every reachable state of the popup, phase ready comes with
\* prepared metadata of the content type shown (here a video with its URL),
\* so that a click on the primary button in phase ready has an asset to
\* download.
C26_ReadyHasAsset ==
    state.phase = "ready" => (state.meta = "video" /\ state.contentType = "video")

=============================================================================
